---- MODULE Spec2Model ----
(***************************************************************************)
(* Hybrid retrieval and ranking engine of the Qanounek RAG backend:        *)
(*   backend/src/vector_store/hybrid_search.py  (HybridSearchEngine)       *)
(*   backend/src/vector_store/search.py         (RAGSearchEngine)          *)
(*   backend/src/vector_store/qdrant_store.py   (QdrantStore.search)       *)
(*                                                                         *)
(* Python dicts are functions with a string domain (Get/Put), Python lists *)
(* are sequences, insertion-ordered dicts are sequences of key/value       *)
(* entries.  Scores are Python floats; they are modelled as exact          *)
(* rationals <<numerator, denominator>> in lowest terms, so the model      *)
(* leaves out IEEE rounding.                                               *)
(***************************************************************************)
EXTENDS Integers, Sequences, FiniteSets, TLC

(***************************************************************************)
(* Bounds of the model.                                                    *)
(***************************************************************************)
\* largest `limit` a caller passes to hybrid_search
MaxLimit == 2
\* largest `max_results` a caller passes to search_and_answer
MaxResults == 2
\* longest flattened list _calculate_confidence is exercised on
MaxFragments == 6

(***************************************************************************)
(* Exact rational arithmetic standing for float arithmetic.                *)
(***************************************************************************)
\* An operator binds its arguments once, as values, by p \in {<<...>>}: an
\* argument used several times is then computed once, also where ENABLED
\* (in a fairness condition) is evaluated.
RECURSIVE GCD(_, _)
GCD(a, b) ==
    CHOOSE g \in {IF p[2] = 0 THEN p[1] ELSE GCD(p[2], p[1] % p[2])
                     : p \in {<<a, b>>}} : TRUE

Abs(x) == IF x < 0 THEN -x ELSE x

Rat(n, d) ==
    CHOOSE r \in {LET s == IF p[2] < 0 THEN -1 ELSE 1
                      g == GCD(Abs(p[1]), Abs(p[2]))
                  IN  <<(s * p[1]) \div g, (s * p[2]) \div g>>
                     : p \in {<<n, d>>}} : TRUE

RAdd(a, b) ==
    CHOOSE r \in {LET g == GCD(p[1][2], p[2][2])
                  IN  Rat(p[1][1] * (p[2][2] \div g) + p[2][1] * (p[1][2] \div g),
                          p[1][2] * (p[2][2] \div g))
                     : p \in {<<a, b>>}} : TRUE
RSub(a, b) ==
    CHOOSE r \in {RAdd(p[1], <<-p[2][1], p[2][2]>>) : p \in {<<a, b>>}} : TRUE
RMul(a, b) ==
    CHOOSE r \in {Rat(p[1][1] * p[2][1], p[1][2] * p[2][2])
                     : p \in {<<a, b>>}} : TRUE
RDiv(a, b) ==
    CHOOSE r \in {Rat(p[1][1] * p[2][2], p[1][2] * p[2][1])
                     : p \in {<<a, b>>}} : TRUE
RLt(a, b) == \E p \in {<<a, b>>} : p[1][1] * p[2][2] < p[2][1] * p[1][2]
RLe(a, b) == \E p \in {<<a, b>>} : p[1][1] * p[2][2] <= p[2][1] * p[1][2]

Zero == Rat(0, 1)
One == Rat(1, 1)

\* max(scores), min(scores) of a non-empty list of floats
RMax(scores) ==
    CHOOSE m \in {scores[i] : i \in DOMAIN scores} :
        \A i \in DOMAIN scores : RLe(scores[i], m)
RMin(scores) ==
    CHOOSE m \in {scores[i] : i \in DOMAIN scores} :
        \A i \in DOMAIN scores : RLe(m, scores[i])

RECURSIVE RSum(_)
RSum(scores) ==
    CHOOSE r \in {IF xs = <<>> THEN Zero ELSE RAdd(xs[1], RSum(Tail(xs)))
                     : xs \in {scores}} : TRUE

(***************************************************************************)
(* Python dict and list primitives.                                        *)
(***************************************************************************)
\* d.get(k, default)
Get(d, k, default) == IF k \in DOMAIN d THEN d[k] ELSE default

\* d[k] = v  /  {**d, k: v}
Put(d, k, v) == [x \in (DOMAIN d) \cup {k} |-> IF x = k THEN v ELSE d[x]]

\* xs[:n] for n >= 0
Take(xs, n) == SubSeq(xs, 1, IF n < Len(xs) THEN n ELSE Len(xs))

\* list.sort(key=..., reverse=True), keys[i] being the key of xs[i]: Python's
\* sort is stable, and with reverse=True elements with equal keys keep their
\* original order.
SortDesc(xs, keys) ==
    CHOOSE sorted \in
        {LET n == Len(q[1])
             pos(i) == 1 + Cardinality({j \in 1..n :
                             \/ RLt(q[2][i], q[2][j])
                             \/ (q[2][j] = q[2][i] /\ j < i)})
             at == [p \in 1..n |-> CHOOSE i \in 1..n : pos(i) = p]
         IN  [p \in 1..n |-> q[1][at[p]]] \o <<>>
           : q \in {<<xs \o <<>>, keys \o <<>>>>}} : TRUE

\* An insertion-ordered dict as a sequence of entries [k |-> key, v |-> value].
DictHas(d, key) == \E i \in DOMAIN d : d[i].k = key
DictIdx(d, key) == CHOOSE i \in DOMAIN d : d[i].k = key
DictGet(d, key) == d[DictIdx(d, key)].v
\* d[key] = value: an existing key keeps its place, a new key goes last
DictSet(d, key, value) ==
    IF DictHas(d, key)
    THEN [d EXCEPT ![DictIdx(d, key)] = [k |-> key, v |-> value]]
    ELSE Append(d, [k |-> key, v |-> value])
DictValues(d) == [i \in DOMAIN d |-> d[i].v]
DictKeys(d) == [i \in DOMAIN d |-> d[i].k]

(***************************************************************************)
(* The corpus: chunks as the chunker writes them and the store returns     *)
(* them.                                                                   *)
(***************************************************************************)
\* metadata of a chunk (total_chunks and is_complete_article are never read
\* by the engine and are left out)
Metadata(code, article, index) ==
    [article_number |-> article, code_source |-> code, chunk_index |-> index]

\* The chunks of the modelled corpus: two chunks of one article, one chunk
\* of another.
Chunks ==
    { Metadata("code_penal", "12", 0),
      Metadata("code_penal", "12", 1),
      Metadata("code_travail", "41", 0) }

\* Chunk.id: f"{code_name}_art{article_number}_chunk{i+1}"
ChunkId(m) == <<m.code_source, "art", m.article_number, "chunk", m.chunk_index + 1>>

\* The text of a chunk, held as the chunk it is the text of and its length
\* in characters: a first chunk of exactly 150 characters, a later chunk of
\* 151.
TextOf(m) ==
    [chunk |-> ChunkId(m), len |-> 150 + m.chunk_index, ellipsis |-> FALSE]

\* one formatted result of QdrantStore.search
FormattedResult(m, score) ==
    [text |-> TextOf(m), metadata |-> m, chunk_id |-> ChunkId(m), score |-> score]

\* similarity scores the vector collaborator may report
VectorScores == { Rat(1, 16), Rat(1, 2), Rat(9, 10) }
\* scores BM25Okapi.get_scores may report for a document
Bm25Scores == { Zero, Rat(1, 1), Rat(2, 1), Rat(5, 1) }

\* sequences without repetition over a set
InjSeqs(S) ==
    UNION { { p \in [1..n -> S] : \A i, j \in 1..n : i # j => p[i] # p[j] }
            : n \in 0..Cardinality(S) }

NonIncreasing(n, S) ==
    { sc \in [1..n -> S] : \A i \in 1..(n - 1) : RLe(sc[i + 1], sc[i]) }

\* what the store can hold for one query: distinct points ranked by
\* similarity, best first
Rankings ==
    UNION { { [i \in 1..Len(p) |-> FormattedResult(p[i], sc[i])]
              : sc \in NonIncreasing(Len(p), VectorScores) }
            : p \in InjSeqs(Chunks) }

(***************************************************************************)
(* State.                                                                  *)
(***************************************************************************)
VARIABLES
    points,          \* the store's points ranked for the request's query
    bm25_index,      \* HybridSearchEngine.bm25_index: None (built = FALSE) or
                     \* a BM25Okapi, held as the scores its get_scores
                     \* gives each document for the request's question
    documents,       \* HybridSearchEngine.documents
    metadata_list,   \* HybridSearchEngine.metadata_list
    limit,           \* hybrid_search: the caller's limit
    h_pc,            \* hybrid_search: position
    vector_results,  \* hybrid_search: result of _vector_search
    bm25_results,    \* hybrid_search: result of _bm25_search
    vector_normalized, \* _merge_results: the vector hits after normalization
    bm25_normalized, \* _merge_results: the keyword hits after normalization
    merged_docs,     \* _merge_results: merged_docs, scored, before sorting
    merged_results,  \* hybrid_search: result of _merge_results
    question,        \* search_and_answer: the user's question
    max_results,     \* search_and_answer: the caller's max_results
    pc,              \* search_and_answer: position
    enriched_question, \* search_and_answer: result of the reformulation
    search_results,  \* search_and_answer: the tagged hits of the store
    grouped_results, \* search_and_answer: result of _group_chunks_by_article
    flattened_results, \* search_and_answer: chunks of the best articles
    llm_call,        \* arguments generate_optimized_response was called with
    answer,          \* search_and_answer: the generated answer
    response,        \* what search_and_answer returned
    stages,          \* the stages the request has run, in order
    reformulation,   \* what the model did with the reformulation prompt
    exception,       \* the stage whose exception the outer except caught
    c_pc,            \* _calculate_confidence on two lists: position
    c_first,         \* the first flattened list
    c_second,        \* the second flattened list
    c_confidence_first,  \* what _calculate_confidence returned for the first
    c_confidence_second, \* what _calculate_confidence returned for the second
    cache,           \* bm25_index.pkl: absent, or the pickled index state
    old_snapshot,    \* the index state when rebuild_bm25_index was called
    artifact,        \* bm25_index.pkl as the constructor found it
    r_pc,            \* rebuild_bm25_index: position
    r_outcome,       \* rebuild_bm25_index: how the rebuild went
    all_results,     \* _create_bm25_index: what the store returned
    tokenized_docs,  \* _create_bm25_index: tokens of the documents read so far
    q_pc,            \* concurrent _bm25_search: position
    q_began,         \* where the rebuild was when the query began
    q_limit,         \* concurrent _bm25_search: its limit
    q_scored_docs,   \* concurrent _bm25_search: the sorted (idx, score) pairs
    q_text,          \* concurrent _bm25_search: self.documents[idx] just read
    q_results,       \* concurrent _bm25_search: results so far, then returned
    q_tokens,        \* _bm25_search: how many tokens the question yields
    h_tokens,        \* hybrid_search: how many tokens the question yields
    rebuilds,        \* how many times rebuild_bm25_index has been called
    first_results,   \* what _bm25_search returned after the first rebuild
    first_outcome,   \* how the first rebuild went
    g_pc,            \* _group_chunks_by_article run twice: position
    g_input,         \* the list both runs are given
    g_first,         \* what the first run returned
    g_second,        \* what the second run returned
    a_pc,            \* POST /ask: position
    http             \* POST /ask: what the caller got

store_vars == <<points, bm25_index, documents, metadata_list>>
hybrid_vars == <<limit, h_tokens, h_pc, vector_results, bm25_results, vector_normalized,
                 bm25_normalized, merged_docs, merged_results>>
request_vars == <<question, max_results, pc, enriched_question, search_results,
                  grouped_results, flattened_results, llm_call, answer,
                  response, stages, reformulation, exception>>
confidence_vars == <<c_pc, c_first, c_second, c_confidence_first,
                     c_confidence_second>>
rebuild_vars == <<cache, old_snapshot, artifact, r_pc, r_outcome,
                  all_results, tokenized_docs, rebuilds, first_results,
                  first_outcome>>
query_vars == <<q_pc, q_began, q_limit, q_tokens, q_scored_docs, q_text,
                q_results>>
group_vars == <<g_pc, g_input, g_first, g_second>>
ask_vars == <<a_pc, http>>
vars == <<store_vars, hybrid_vars, request_vars, confidence_vars, rebuild_vars,
          query_vars, group_vars, ask_vars>>

(***************************************************************************)
(* QdrantStore.search                                                      *)
(***************************************************************************)
\* the ranked points cut to `limit`; [] when the client call raises
search(ranked, lim, ok) == IF ok THEN Take(ranked, lim) ELSE <<>>

(***************************************************************************)
(* HybridSearchEngine                                                      *)
(***************************************************************************)
_get_doc_id(metadata) ==
    << Get(metadata, "code_source", "unknown"),
       Get(metadata, "article_number", "unknown"),
       Get(metadata, "chunk_id", "0") >>

\* f'{score_key}_norm'
NormKey(score_key) ==
    CASE score_key = "vector_score" -> "vector_score_norm"
      [] score_key = "bm25_score" -> "bm25_score_norm"

\* _normalize_scores dividing by the maximum alone, the minimum not
\* subtracted
_normalize_scores_no_min(results, score_key) ==
    IF results = <<>> THEN results
    ELSE
        LET scores == [i \in DOMAIN results |-> Get(results[i], score_key, Zero)]
            max_score == RMax(scores)
            min_score == RMin(scores)
        IN  IF max_score = min_score
            THEN [i \in DOMAIN results |-> Put(results[i], NormKey(score_key), One)]
            ELSE [i \in DOMAIN results |->
                    Put(results[i], NormKey(score_key),
                        RDiv(Get(results[i], score_key, Zero), max_score))]

_normalize_scores(results, score_key) ==
    IF results = <<>> THEN results
    ELSE
        LET scores == [i \in DOMAIN results |-> Get(results[i], score_key, Zero)]
            max_score == RMax(scores)
            min_score == RMin(scores)
            norm_key == NormKey(score_key)
        IN  IF max_score = min_score
            THEN [i \in DOMAIN results |-> Put(results[i], norm_key, One)]
            ELSE [i \in DOMAIN results |->
                    Put(results[i], norm_key,
                        RDiv(RSub(Get(results[i], score_key, Zero), min_score),
                             RSub(max_score, min_score)))]

\* _vector_search: encode, search, tag every hit 'vector'; [] when either
\* collaborator call raises
_vector_search(ranked, lim, ok) ==
    LET results == search(ranked, lim, ok)
    IN  [i \in DOMAIN results |->
            Put(Put(results[i], "search_type", "vector"),
                "vector_score", results[i].score)]

\* _bm25_search for a question with at least one token: the documents with
\* a positive score, best first, cut to `lim`
\* _bm25_search keeping the documents that score 0
_bm25_search_keep_zero(index, docs, metas, query_tokens, lim) ==
    IF ~index.built THEN <<>>
    ELSE IF query_tokens = 0 THEN <<>>
    ELSE
        LET scores == index.scores
            idxs == [i \in DOMAIN scores |-> i]
            scored_docs == SortDesc(idxs, [n \in DOMAIN idxs |-> scores[idxs[n]]])
            top == Take(scored_docs, lim)
        IN  [n \in DOMAIN top |->
                [text |-> docs[top[n]],
                 metadata |-> metas[top[n]],
                 score |-> scores[top[n]],
                 search_type |-> "bm25",
                 bm25_score |-> scores[top[n]]]]

_bm25_search(index, docs, metas, query_tokens, lim) ==
    IF ~index.built THEN <<>>
    ELSE IF query_tokens = 0 THEN <<>>
    ELSE
        LET scores == index.scores
            idxs == SelectSeq([i \in DOMAIN scores |-> i],
                              LAMBDA i : RLt(Zero, scores[i]))
            scored_docs == SortDesc(idxs, [n \in DOMAIN idxs |-> scores[idxs[n]]])
            top == Take(scored_docs, lim)
        IN  [n \in DOMAIN top |->
                [text |-> docs[top[n]],
                 metadata |-> metas[top[n]],
                 score |-> scores[top[n]],
                 search_type |-> "bm25",
                 bm25_score |-> scores[top[n]]]]

\* first loop of _merge_results: one entry per doc_id, a later hit with the
\* same doc_id replaces the earlier one
RECURSIVE MergeVector(_, _)
MergeVector(acc, results) ==
    IF results = <<>> THEN acc
    ELSE
        LET result == Head(results)
            doc_id == _get_doc_id(result.metadata)
            entry == Put(Put(result, "vector_score_norm",
                             Get(result, "vector_score_norm", Zero)),
                         "bm25_score_norm", Zero)
        IN  MergeVector(DictSet(acc, doc_id, entry), Tail(results))

\* second loop of _merge_results
RECURSIVE MergeBm25(_, _)
MergeBm25(acc, results) ==
    IF results = <<>> THEN acc
    ELSE
        LET result == Head(results)
            doc_id == _get_doc_id(result.metadata)
            norm == Get(result, "bm25_score_norm", Zero)
            entry ==
                IF DictHas(acc, doc_id)
                THEN Put(Put(DictGet(acc, doc_id), "bm25_score_norm", norm),
                         "search_type", "hybrid")
                ELSE Put(Put(result, "vector_score_norm", Zero),
                         "bm25_score_norm", norm)
        IN  MergeBm25(DictSet(acc, doc_id, entry), Tail(results))

\* the fusion weights
VectorWeight == Rat(4, 10)
Bm25Weight == Rat(6, 10)

\* final_score of one merged document
FinalScore(doc) ==
    RAdd(RMul(VectorWeight, doc["vector_score_norm"]),
         RMul(Bm25Weight, doc["bm25_score_norm"]))

\* merged_docs after the three loops of _merge_results
MergedDocs(vector_res, bm25_res) ==
    LET v_normalized == _normalize_scores(vector_res, "vector_score")
        b_normalized == _normalize_scores(bm25_res, "bm25_score")
        acc == MergeBm25(MergeVector(<<>>, v_normalized), b_normalized)
    IN  [i \in DOMAIN acc |->
            [k |-> acc[i].k,
             v |-> Put(Put(acc[i].v, "score", FinalScore(acc[i].v)),
                       "hybrid_score", FinalScore(acc[i].v))]]

\* _merge_results cutting to the limit without sorting first
_merge_results_unsorted(vector_res, bm25_res, lim) ==
    Take(DictValues(MergedDocs(vector_res, bm25_res)), lim)

_merge_results(vector_res, bm25_res, lim) ==
    LET values == DictValues(MergedDocs(vector_res, bm25_res))
        final_results == SortDesc(values, [i \in DOMAIN values |-> values[i].score])
    IN  Take(final_results, lim)

(***************************************************************************)
(* RAGSearchEngine                                                         *)
(***************************************************************************)
\* A question or a rewritten question, held as what it is and the number of
\* whitespace-separated tokens it has.
UserQuestion == [id |-> "question", tokens |-> 4]
Rewritten(n) == [id |-> "rewritten", tokens |-> n]

\* what model.generate_content can do with the reformulation prompt: raise,
\* or answer with a text of some number of tokens (0: empty after strip())
ReformulationOutcomes ==
    {[raised |-> TRUE, tokens |-> 0]}
        \cup {[raised |-> FALSE, tokens |-> n] : n \in {0, 2, 3}}

\* _reformulate_to_legal_terms accepting a rewriting of two tokens
_reformulate_accepting_short(q, outcome) ==
    IF outcome.raised THEN q
    ELSE
        LET enriched == Rewritten(outcome.tokens)
        IN  IF enriched.tokens # 0 /\ enriched.tokens >= 2 THEN enriched ELSE q

_reformulate_to_legal_terms(q, outcome) ==
    IF outcome.raised THEN q
    ELSE
        LET enriched == Rewritten(outcome.tokens)
        IN  IF enriched.tokens # 0 /\ enriched.tokens >= 3 THEN enriched ELSE q

\* the article key with the chunk index in it
ArticleKey_with_chunk(metadata) ==
    << Get(metadata, "code_source", "None"), "_",
       Get(metadata, "article_number", "None"), "_",
       Get(metadata, "chunk_index", 0) >>

\* f"{metadata.get('code_source')}_{metadata.get('article_number')}"; code
\* names and article numbers (digits) hold no "_", so the parts stay apart
ArticleKey(metadata) ==
    << Get(metadata, "code_source", "None"), "_",
       Get(metadata, "article_number", "None") >>

\* first loop of _group_chunks_by_article
RECURSIVE GroupLoop(_, _)
GroupLoop(grouped, results) ==
    IF results = <<>> THEN grouped
    ELSE
        LET result == Head(results)
            article_key == ArticleKey(result.metadata)
            chunks == IF DictHas(grouped, article_key)
                      THEN DictGet(grouped, article_key) ELSE <<>>
        IN  CHOOSE g \in
                {GroupLoop(p[1], p[2])
                   : p \in {<<DictSet(grouped, article_key,
                                      Append(chunks, result)),
                              Tail(results)>>}} : TRUE

\* article_scores as the plain mean of the chunk scores
ArticleScoreMeanOnly(chunks) ==
    RDiv(RSum([i \in DOMAIN chunks |-> chunks[i].score]), Rat(Len(chunks), 1))

\* article_scores[article_key] of a group whose chunks are sorted
ArticleScore(chunks) ==
    LET best_score == chunks[1].score
        avg_score == RDiv(RSum([i \in DOMAIN chunks |-> chunks[i].score]),
                          Rat(Len(chunks), 1))
    IN  RAdd(RMul(best_score, Rat(7, 10)), RMul(avg_score, Rat(3, 10)))

\* _group_chunks_by_article keeping `grouped` from one call to the next:
\* a second call groups its input on top of the first call's
_group_chunks_accumulating(results) ==
    LET seen == IF g_first = <<>> THEN results ELSE results \o results
        grouped == GroupLoop(<<>>, seen)
        sorted_chunks == [i \in DOMAIN grouped |->
                            [k |-> grouped[i].k,
                             v |-> SortDesc(grouped[i].v,
                                           [n \in DOMAIN grouped[i].v |->
                                               grouped[i].v[n].score])]]
    IN  SortDesc(sorted_chunks,
                 [i \in DOMAIN sorted_chunks |-> ArticleScore(sorted_chunks[i].v)])

_group_chunks_by_article(results) ==
    CHOOSE articles \in
        {SortDesc(sorted_chunks,
                  [i \in DOMAIN sorted_chunks |->
                      ArticleScore(sorted_chunks[i].v)])
           : sorted_chunks \in
               {[i \in DOMAIN grouped |->
                    [k |-> grouped[i].k,
                     v |-> SortDesc(grouped[i].v,
                                    [n \in DOMAIN grouped[i].v |->
                                        grouped[i].v[n].score])]]
                  : grouped \in {GroupLoop(<<>>, results)}}} : TRUE

\* round(x, 3): the nearest multiple of 1/1000, a tie going to the even one
Round3(x) ==
    LET q == (1000 * x[1]) \div x[2]
        rem == 1000 * x[1] - q * x[2]
    IN  IF 2 * rem < x[2] THEN Rat(q, 1000)
        ELSE IF 2 * rem > x[2] THEN Rat(q + 1, 1000)
        ELSE IF q % 2 = 0 THEN Rat(q, 1000) ELSE Rat(q + 1, 1000)

\* the display name of a code
CodeDisplay(code_source) ==
    CASE code_source = "code_travail" -> "Code du Travail"
      [] code_source = "code_penal" -> "Code Penal"
      [] code_source = "code_commerce" -> "Code de Commerce"
      [] code_source = "code_route" -> "Code de la Route"
      [] code_source = "code_procedure_civile" -> "Code de Procedure Civile"
      [] OTHER -> code_source

\* result['text'][:150] + "..." if len(result['text']) > 150 else result['text']
TextPreview(text) ==
    IF text.len > 150
    THEN [chunk |-> text.chunk, len |-> 150 + 3, ellipsis |-> TRUE]
    ELSE text

RECURSIVE ExtractLoop(_, _, _)
ExtractLoop(sources, seen_articles, results) ==
    IF results = <<>> THEN sources
    ELSE
        LET result == Head(results)
            article_key == ArticleKey(result.metadata)
        IN  IF article_key \in seen_articles
            THEN ExtractLoop(sources, seen_articles, Tail(results))
            ELSE ExtractLoop(
                    Append(sources,
                        [article_number |-> Get(result.metadata, "article_number", "N/A"),
                         code_source |-> CodeDisplay(Get(result.metadata, "code_source", "N/A")),
                         relevance_score |-> Round3(result.score),
                         text_preview |-> TextPreview(result.text),
                         search_type |-> Get(result, "search_type", "unknown")]),
                    seen_articles \cup {article_key},
                    Tail(results))

\* _extract_sources without the seen_articles test: one entry per result
_extract_sources_no_dedup(results) ==
    [i \in DOMAIN results |-> ExtractLoop(<<>>, {}, <<results[i]>>)[1]]

_extract_sources(results) == ExtractLoop(<<>>, {}, results)

\* _calculate_confidence averaging every fragment instead of the first five
_calculate_confidence_all(results) ==
    IF results = <<>> THEN Zero
    ELSE
        LET avg_score == RDiv(RSum([i \in DOMAIN results |-> results[i].score]),
                              Rat(Len(results), 1))
            by_three == Rat(Len(results), 3)
            source_factor == IF RLt(by_three, One) THEN by_three ELSE One
            hybrid_bonus ==
                IF \E i \in DOMAIN results :
                       Get(results[i], "search_type", "None") = "hybrid"
                THEN Rat(11, 10) ELSE One
            confidence == RMul(RMul(avg_score, source_factor), hybrid_bonus)
        IN  Round3(IF RLt(confidence, One) THEN confidence ELSE One)

_calculate_confidence(results) ==
    IF results = <<>> THEN Zero
    ELSE
        LET top_results == Take(results, 5)
            avg_score == RDiv(RSum([i \in DOMAIN top_results |-> top_results[i].score]),
                              Rat(Len(top_results), 1))
            by_three == Rat(Len(results), 3)
            source_factor == IF RLt(by_three, One) THEN by_three ELSE One
            hybrid_bonus ==
                IF \E i \in DOMAIN results :
                       Get(results[i], "search_type", "None") = "hybrid"
                THEN Rat(11, 10) ELSE One
            confidence == RMul(RMul(avg_score, source_factor), hybrid_bonus)
        IN  Round3(IF RLt(confidence, One) THEN confidence ELSE One)

\* LLMInterface.generate_optimized_response: the model's text, or the
\* apology when generate_content raises
generate_optimized_response(original_question, legal_context, ok) ==
    IF ok THEN "generated answer" ELSE "Desole, une erreur s'est produite"

\* the extend loop stopping after the first article
Flatten_first_only(best_articles) ==
    IF best_articles = <<>> THEN <<>> ELSE Head(best_articles)

RECURSIVE Flatten(_)
\* flattened_results after the extend loop
Flatten(best_articles) ==
    IF best_articles = <<>> THEN <<>>
    ELSE Head(best_articles) \o Flatten(Tail(best_articles))

\* the fixed response with a confidence of 1.0
NoResultsResponse_confident ==
    [returned |-> TRUE,
     answer |-> "Aucune information trouvee dans les textes juridiques.",
     sources |-> <<>>, confidence |-> One, search_results_count |-> 0]

NoResultsResponse ==
    [returned |-> TRUE,
     answer |-> "Aucune information trouvee dans les textes juridiques.",
     sources |-> <<>>, confidence |-> Zero, search_results_count |-> 0]

\* the error response without its sources
ErrorResponse_no_sources ==
    [returned |-> TRUE,
     answer |-> "Une erreur s'est produite lors de la recherche.",
     confidence |-> Zero, search_results_count |-> 0]

ErrorResponse ==
    [returned |-> TRUE,
     answer |-> "Une erreur s'est produite lors de la recherche.",
     sources |-> <<>>, confidence |-> Zero, search_results_count |-> 0]

(***************************************************************************)
(* The keyword index as _create_bm25_index leaves it: one document per     *)
(* point the store returned, in the order the store returned them.         *)
(***************************************************************************)
BuiltIndexes(ranked) ==
    { [docs |-> [i \in DOMAIN ranked |-> ranked[i].text],
       metas |-> [i \in DOMAIN ranked |-> ranked[i].metadata],
       index |-> [built |-> TRUE, scores |-> sc]]
      : sc \in [DOMAIN ranked -> Bm25Scores] }

NoIndex == [docs |-> <<>>, metas |-> <<>>, index |-> [built |-> FALSE]]

\* no documents found: bm25_index stays None
Indexes(ranked) == IF ranked = <<>> THEN {NoIndex} ELSE BuiltIndexes(ranked)

(***************************************************************************)
(* hybrid_search(question, limit), one action per stage.                   *)
(***************************************************************************)
\* hybrid_search not running
HybridIdle ==
    /\ limit = 0
    /\ h_tokens = 0
    /\ h_pc = "idle"
    /\ vector_results = <<>>
    /\ bm25_results = <<>>
    /\ vector_normalized = <<>>
    /\ bm25_normalized = <<>>
    /\ merged_docs = <<>>
    /\ merged_results = <<>>

\* search_and_answer not running
RequestIdle ==
    /\ question = UserQuestion
    /\ max_results = 0
    /\ pc = "idle"
    /\ enriched_question = UserQuestion
    /\ search_results = <<>>
    /\ grouped_results = <<>>
    /\ flattened_results = <<>>
    /\ llm_call = <<>>
    /\ answer = ""
    /\ response = [returned |-> FALSE]
    /\ stages = <<>>
    /\ reformulation = [raised |-> FALSE, tokens |-> 0]
    /\ exception = "None"

\* no rebuild of the keyword index and no concurrent query under way
RebuildIdle ==
    /\ cache = [exists |-> FALSE]
    /\ old_snapshot = [index |-> bm25_index, docs |-> documents,
                       metas |-> metadata_list]
    /\ artifact = [exists |-> FALSE]
    /\ r_pc = "idle"
    /\ r_outcome = "pending"
    /\ all_results = <<>>
    /\ tokenized_docs = <<>>
    /\ q_pc = "idle"
    /\ q_began = "idle"
    /\ q_limit = 0
    /\ q_tokens = 0
    /\ q_scored_docs = <<>>
    /\ q_text = <<>>
    /\ q_results = <<>>
    /\ rebuilds = 0
    /\ first_results = <<>>
    /\ first_outcome = "pending"

\* _group_chunks_by_article not being exercised on its own
GroupIdle ==
    /\ g_pc = "idle"
    /\ g_input = <<>>
    /\ g_first = <<>>
    /\ g_second = <<>>

\* no POST /ask under way
AskIdle ==
    /\ a_pc = "idle"
    /\ http = [status |-> 0]

\* how many tokens _tokenize_text may leave of a question: none (stop words
\* and punctuation only), or some
QueryTokenCounts == {0, 2}

\* _calculate_confidence not being exercised on its own
ConfidenceIdle ==
    /\ c_pc = "idle"
    /\ c_first = <<>>
    /\ c_second = <<>>
    /\ c_confidence_first = Zero
    /\ c_confidence_second = Zero

InitHybrid ==
    /\ points \in Rankings
    /\ \E ix \in Indexes(points) :
          /\ bm25_index = ix.index
          /\ documents = ix.docs
          /\ metadata_list = ix.metas
    /\ limit \in 1..MaxLimit
    /\ h_tokens \in QueryTokenCounts
    /\ h_pc = "vector_search"
    /\ vector_results = <<>>
    /\ bm25_results = <<>>
    /\ vector_normalized = <<>>
    /\ bm25_normalized = <<>>
    /\ merged_docs = <<>>
    /\ merged_results = <<>>
    /\ RequestIdle
    /\ ConfidenceIdle
    /\ GroupIdle
    /\ AskIdle
    /\ RebuildIdle

HVectorSearch ==
    /\ h_pc = "vector_search"
    /\ \E ok \in BOOLEAN :
          vector_results' = _vector_search(points, limit * 2, ok)
    /\ h_pc' = "bm25_search"
    /\ UNCHANGED <<limit, h_tokens, bm25_results, vector_normalized, bm25_normalized,
                   merged_docs, merged_results>>
    /\ UNCHANGED <<store_vars, request_vars, confidence_vars, rebuild_vars,
                   query_vars, group_vars, ask_vars>>

HBm25Search ==
    /\ h_pc = "bm25_search"
    /\ bm25_results' = _bm25_search(bm25_index, documents, metadata_list,
                                    h_tokens, limit * 2)
    /\ h_pc' = "merge"
    /\ UNCHANGED <<limit, h_tokens, vector_results, vector_normalized, bm25_normalized,
                   merged_docs, merged_results>>
    /\ UNCHANGED <<store_vars, request_vars, confidence_vars, rebuild_vars,
                   query_vars, group_vars, ask_vars>>

HMerge ==
    /\ h_pc = "merge"
    /\ vector_normalized' = _normalize_scores(vector_results, "vector_score")
    /\ bm25_normalized' = _normalize_scores(bm25_results, "bm25_score")
    /\ merged_docs' = MergedDocs(vector_results, bm25_results)
    /\ merged_results' = _merge_results(vector_results, bm25_results, limit)
    /\ h_pc' = "done"
    /\ UNCHANGED <<limit, h_tokens, vector_results, bm25_results>>
    /\ UNCHANGED <<store_vars, request_vars, confidence_vars, rebuild_vars,
                   query_vars, group_vars, ask_vars>>

NextHybrid == HVectorSearch \/ HBm25Search \/ HMerge

SpecHybrid == InitHybrid /\ [][NextHybrid]_vars

(***************************************************************************)
(* search_and_answer(question, max_results), one action per stage.         *)
(***************************************************************************)
\* the ranking of the specification's worked example: article 41 of
\* code_travail with scores 0.9, 0.6, 0.3 and article 12 of code_penal with
\* scores 0.95, 0.2
WorkedExample ==
    << FormattedResult(Metadata("code_penal", "12", 0), Rat(95, 100)),
       FormattedResult(Metadata("code_travail", "41", 0), Rat(9, 10)),
       FormattedResult(Metadata("code_travail", "41", 1), Rat(6, 10)),
       FormattedResult(Metadata("code_travail", "41", 2), Rat(3, 10)),
       FormattedResult(Metadata("code_penal", "12", 1), Rat(2, 10)) >>

\* rankings of a store whose scores are not on the [0, 1] scale: cosine
\* similarities below 0, and a score above 1
BelowZero ==
    << FormattedResult(Metadata("code_penal", "12", 0), Rat(-1, 4)),
       FormattedResult(Metadata("code_penal", "12", 1), Rat(-1, 2)) >>

AboveOne ==
    << FormattedResult(Metadata("code_travail", "41", 0), Rat(3, 2)),
       FormattedResult(Metadata("code_penal", "12", 0), Rat(1, 2)) >>

\* a ranking of twelve hits, more than the generation context takes: seven
\* chunks of article 12 of code_penal and five of article 41 of
\* code_travail, interleaved, with scores from 0.95 down to 0.40
LongRanking ==
    [i \in 1..12 |->
        FormattedResult(IF i % 2 = 1 \/ i > 10
                        THEN Metadata("code_penal", "12", IF i > 10 THEN i - 6
                                                          ELSE (i - 1) \div 2)
                        ELSE Metadata("code_travail", "41", (i \div 2) - 1),
                        Rat(100 - 5 * i, 100))]

\* an index built from the points, every document scoring the same
UniformIndex(ranked) ==
    IF ranked = <<>> THEN NoIndex
    ELSE [docs |-> [i \in DOMAIN ranked |-> ranked[i].text],
          metas |-> [i \in DOMAIN ranked |-> ranked[i].metadata],
          index |-> [built |-> TRUE, scores |-> [i \in DOMAIN ranked |-> One]]]

Init ==
    /\ points \in Rankings \cup {WorkedExample, BelowZero, AboveOne, LongRanking}
    /\ bm25_index = UniformIndex(points).index
    /\ documents = UniformIndex(points).docs
    /\ metadata_list = UniformIndex(points).metas
    /\ HybridIdle
    /\ question = UserQuestion
    /\ max_results \in 0..MaxResults
    /\ pc = "reformulate"
    /\ enriched_question = UserQuestion
    /\ search_results = <<>>
    /\ grouped_results = <<>>
    /\ flattened_results = <<>>
    /\ llm_call = <<>>
    /\ answer = ""
    /\ response = [returned |-> FALSE]
    /\ stages = <<>>
    /\ reformulation = [raised |-> FALSE, tokens |-> 0]
    /\ exception = "None"
    /\ ConfidenceIdle
    /\ GroupIdle
    /\ AskIdle
    /\ RebuildIdle

\* 1. reformulation
Reformulate ==
    /\ pc = "reformulate"
    /\ \E outcome \in ReformulationOutcomes :
          /\ reformulation' = outcome
          /\ enriched_question' = _reformulate_to_legal_terms(question, outcome)
    /\ stages' = Append(stages, "Reformulate")
    /\ pc' = "vector_search"
    /\ UNCHANGED <<question, max_results, search_results, grouped_results,
                   flattened_results, llm_call, answer, response, exception>>
    /\ UNCHANGED <<store_vars, hybrid_vars, confidence_vars, rebuild_vars,
                   query_vars, group_vars, ask_vars>>

\* 2. encode the enriched question, search the store with limit 20, tag the
\* hits; no hit: the fixed response; encode raising: the error response
VectorSearch ==
    /\ pc = "vector_search"
    /\ stages' = Append(stages, "VectorSearch")
    /\ \E encode_ok, store_ok \in BOOLEAN :
          IF ~encode_ok
          THEN /\ search_results' = search_results
               /\ exception' = "encode"
               /\ response' = ErrorResponse
               /\ pc' = "done"
          ELSE LET found == search(points, 20, store_ok)
                   tagged == [i \in DOMAIN found |->
                                Put(found[i], "search_type", "vector")]
               IN  /\ search_results' = tagged
                   /\ exception' = exception
                   /\ IF tagged = <<>>
                      THEN response' = NoResultsResponse /\ pc' = "done"
                      ELSE response' = response /\ pc' = "aggregate"
    /\ UNCHANGED <<question, max_results, enriched_question, grouped_results,
                   flattened_results, llm_call, answer, reformulation>>
    /\ UNCHANGED <<store_vars, hybrid_vars, confidence_vars, rebuild_vars,
                   query_vars, group_vars, ask_vars>>

\* 3. group the chunks by article; an exception raised while grouping is
\* caught by the outer except: the error response
Aggregate ==
    /\ pc = "aggregate"
    /\ \E raises \in BOOLEAN :
          IF raises
          THEN /\ grouped_results' = grouped_results
               /\ exception' = "grouping"
               /\ response' = ErrorResponse
               /\ pc' = "done"
          ELSE /\ grouped_results' = _group_chunks_by_article(search_results)
               /\ exception' = exception
               /\ response' = response
               /\ pc' = "generate"
    /\ stages' = Append(stages, "Aggregate")
    /\ UNCHANGED <<question, max_results, enriched_question, search_results,
                   flattened_results, llm_call, answer, reformulation>>
    /\ UNCHANGED <<store_vars, hybrid_vars, confidence_vars, rebuild_vars,
                   query_vars, group_vars, ask_vars>>

\* the best articles, flattened, and 4. the generation
Generate ==
    /\ pc = "generate"
    /\ LET best_articles == Take(DictValues(grouped_results), max_results)
           flattened == Flatten(best_articles)
       IN  /\ flattened_results' = flattened
           /\ llm_call' = <<[original_question |-> question,
                            legal_context |-> Take(flattened, 10)]>>
           /\ \E ok \in BOOLEAN :
                answer' = generate_optimized_response(question,
                                                      Take(flattened, 10), ok)
    /\ stages' = Append(stages, "Generate")
    /\ pc' = "assemble"
    /\ UNCHANGED <<question, max_results, enriched_question, search_results,
                   grouped_results, response, reformulation, exception>>
    /\ UNCHANGED <<store_vars, hybrid_vars, confidence_vars, rebuild_vars,
                   query_vars, group_vars, ask_vars>>

\* sources, confidence and the response
Assemble ==
    /\ pc = "assemble"
    /\ response' =
          [returned |-> TRUE,
           answer |-> answer,
           sources |-> _extract_sources(Take(flattened_results, max_results)),
           confidence |-> _calculate_confidence(flattened_results),
           search_results_count |-> Len(search_results),
           search_types |->
               [i \in DOMAIN Take(flattened_results, 5) |->
                   Get(flattened_results[i], "search_type", "unknown")]]
    /\ stages' = Append(stages, "Assemble")
    /\ pc' = "done"
    /\ UNCHANGED <<question, max_results, enriched_question, search_results,
                   grouped_results, flattened_results, llm_call, answer,
                   reformulation, exception>>
    /\ UNCHANGED <<store_vars, hybrid_vars, confidence_vars, rebuild_vars,
                   query_vars, group_vars, ask_vars>>

Next == Reformulate \/ VectorSearch \/ Aggregate \/ Generate \/ Assemble

Spec == Init /\ [][Next]_vars

\* search_and_answer under the scheduling the code gives it. The encoding,
\* the store search, the grouping and the assembly run in the calling
\* thread and end. model.generate_content(...) is called without a timeout
\* in _reformulate_to_legal_terms and in generate_optimized_response: the
\* call returns when the collaborator answers or fails, so a step of
\* Reformulate or Generate is taken only if it does; nothing forces it.
Fairness ==
    /\ WF_vars(VectorSearch)
    /\ WF_vars(Aggregate)
    /\ WF_vars(Assemble)

SpecLive == Init /\ [][Next]_vars /\ Fairness

(***************************************************************************)
(* POST /ask: ask_question(request), the search engine being initialized.  *)
(***************************************************************************)
\* Source(**source): the four declared fields; the extra key search_type
\* is dropped
Source(source) ==
    [article_number |-> source.article_number,
     code_source |-> source.code_source,
     relevance_score |-> source.relevance_score,
     text_preview |-> source.text_preview]

\* AnswerResponse(answer=..., sources=[...], confidence=...,
\*                search_results_count=...)
AnswerResponse(result) ==
    [answer |-> result.answer,
     sources |-> [i \in DOMAIN result.sources |-> Source(result.sources[i])],
     confidence |-> result.confidence,
     search_results_count |-> result.search_results_count]

\* raise HTTPException(status_code=500, detail=f"Erreur: {e}")
HTTPException500 == [status |-> 500, detail |-> "Erreur"]

InitAsk ==
    /\ points \in Rankings \cup {WorkedExample, BelowZero, AboveOne}
    /\ bm25_index = UniformIndex(points).index
    /\ documents = UniformIndex(points).docs
    /\ metadata_list = UniformIndex(points).metas
    /\ HybridIdle
    /\ question = UserQuestion
    /\ max_results \in 0..MaxResults
    /\ pc = "idle"
    /\ enriched_question = UserQuestion
    /\ search_results = <<>>
    /\ grouped_results = <<>>
    /\ flattened_results = <<>>
    /\ llm_call = <<>>
    /\ answer = ""
    /\ response = [returned |-> FALSE]
    /\ stages = <<>>
    /\ reformulation = [raised |-> FALSE, tokens |-> 0]
    /\ exception = "None"
    /\ ConfidenceIdle
    /\ GroupIdle
    /\ RebuildIdle
    /\ a_pc = "debug"
    /\ http = [status |-> 0]

\* the direct test inside the try: a SentenceTransformer is loaded and the
\* question encoded with it; either raising is caught by the handler's
\* except and raised again as HTTPException(500). get_collection_info and
\* vector_store.search catch their own exceptions. Then search_and_answer
\* is called.
AskDebug ==
    /\ a_pc = "debug"
    /\ \E model_ok \in BOOLEAN :
          IF model_ok
          THEN /\ a_pc' = "search"
               /\ pc' = "reformulate"
               /\ http' = http
          ELSE /\ a_pc' = "done"
               /\ pc' = pc
               /\ http' = HTTPException500
    /\ UNCHANGED <<question, max_results, enriched_question, search_results,
                   grouped_results, flattened_results, llm_call, answer,
                   response, stages, reformulation, exception>>
    /\ UNCHANGED <<store_vars, hybrid_vars, confidence_vars, rebuild_vars,
                   query_vars, group_vars>>

\* search_and_answer has returned: the AnswerResponse is built and sent
AskRespond ==
    /\ a_pc = "search"
    /\ pc = "done"
    /\ http' = [status |-> 200, body |-> AnswerResponse(response)]
    /\ a_pc' = "done"
    /\ UNCHANGED <<store_vars, hybrid_vars, request_vars, confidence_vars,
                   rebuild_vars, query_vars, group_vars>>

NextAsk == AskDebug \/ Next \/ AskRespond

SpecAsk == InitAsk /\ [][NextAsk]_vars

(***************************************************************************)
(* _calculate_confidence(results) on its own: two flattened lists of the   *)
(* same length and the same provenance tags, the second list's top-5       *)
(* scores at least the first's.                                            *)
(***************************************************************************)
\* the scores a fragment may carry: cosine similarities lie in [-1, 1], a
\* store on another scale may exceed 1
ConfidenceScores == {Rat(-1, 2), Rat(1, 4), Rat(3, 2)}

\* the provenance tags of a list of n fragments: all 'vector', or the last
\* fragment 'hybrid'
TagPatterns(n) ==
    {[i \in 1..n |-> "vector"],
     [i \in 1..n |-> IF i = n THEN "hybrid" ELSE "vector"]}

\* the fragments as _calculate_confidence reads them: score and search_type
FlattenedLists ==
    UNION {{[i \in 1..n |-> [score |-> sc[i], search_type |-> tg[i]]]
              : sc \in [1..n -> ConfidenceScores], tg \in TagPatterns(n)}
           : n \in 0..MaxFragments}

\* the score lists of length n whose first five scores are at least those
\* of xs, built position by position
RECURSIVE DominatingScores(_, _)
DominatingScores(xs, n) ==
    IF n = 0 THEN {<<>>}
    ELSE {Append(sc, s) : sc \in DominatingScores(xs, n - 1),
                          s \in {c \in ConfidenceScores :
                                    n <= 5 => RLe(xs[n].score, c)}}

\* the lists with the length and the tags of xs whose top-5 scores are at
\* least those of xs
Dominating(xs) ==
    {[i \in DOMAIN xs |-> [score |-> sc[i], search_type |-> xs[i].search_type]]
        : sc \in DominatingScores(xs, Len(xs))}

InitConfidence ==
    /\ points = <<>>
    /\ bm25_index = NoIndex.index
    /\ documents = NoIndex.docs
    /\ metadata_list = NoIndex.metas
    /\ HybridIdle
    /\ RequestIdle
    /\ c_pc = "first"
    /\ c_first \in FlattenedLists
    /\ c_second = <<>>
    /\ c_confidence_first = Zero
    /\ c_confidence_second = Zero
    /\ RebuildIdle
    /\ GroupIdle
    /\ AskIdle

CalculateFirst ==
    /\ c_pc = "first"
    /\ c_confidence_first' = _calculate_confidence(c_first)
    /\ c_pc' = "second"
    /\ UNCHANGED <<c_first, c_second, c_confidence_second>>
    /\ UNCHANGED <<store_vars, hybrid_vars, request_vars, rebuild_vars,
                   query_vars, group_vars, ask_vars>>

CalculateSecond ==
    /\ c_pc = "second"
    /\ \E other \in Dominating(c_first) :
          /\ c_second' = other
          /\ c_confidence_second' = _calculate_confidence(other)
    /\ c_pc' = "done"
    /\ UNCHANGED <<c_first, c_confidence_first>>
    /\ UNCHANGED <<store_vars, hybrid_vars, request_vars, rebuild_vars,
                   query_vars, group_vars, ask_vars>>

NextConfidence == CalculateFirst \/ CalculateSecond

SpecConfidence == InitConfidence /\ [][NextConfidence]_vars

(***************************************************************************)
(* _group_chunks_by_article(results) on its own, called twice on one list. *)
(***************************************************************************)
\* the lists the grouping is given: tagged hits of distinct chunks in any
\* order, with any scores
GroupInputs ==
    UNION {{[i \in DOMAIN p |->
                Put(FormattedResult(p[i], sc[i]), "search_type", "vector")]
              : sc \in [DOMAIN p -> VectorScores]}
           : p \in InjSeqs(Chunks)}

InitGroup ==
    /\ points = <<>>
    /\ bm25_index = NoIndex.index
    /\ documents = NoIndex.docs
    /\ metadata_list = NoIndex.metas
    /\ HybridIdle
    /\ RequestIdle
    /\ ConfidenceIdle
    /\ RebuildIdle
    /\ AskIdle
    /\ g_pc = "first"
    /\ g_input \in GroupInputs
    /\ g_first = <<>>
    /\ g_second = <<>>

\* the first call; it appends the dicts of `results` to lists of its own
\* and sorts those lists: `results` and its dicts are left as they were
GroupFirst ==
    /\ g_pc = "first"
    /\ g_first' = _group_chunks_by_article(g_input)
    /\ g_pc' = "second"
    /\ UNCHANGED <<g_input, g_second>>
    /\ UNCHANGED <<store_vars, hybrid_vars, request_vars, confidence_vars,
                   rebuild_vars, query_vars, ask_vars>>

\* the second call, on the same list
GroupSecond ==
    /\ g_pc = "second"
    /\ g_second' = _group_chunks_by_article(g_input)
    /\ g_pc' = "done"
    /\ UNCHANGED <<g_input, g_first>>
    /\ UNCHANGED <<store_vars, hybrid_vars, request_vars, confidence_vars,
                   rebuild_vars, query_vars, ask_vars>>

NextGroup == GroupFirst \/ GroupSecond

SpecGroup == InitGroup /\ [][NextGroup]_vars

(***************************************************************************)
(* rebuild_bm25_index() statement by statement, and a _bm25_search running *)
(* at the same time on another thread.  Each attribute read and each       *)
(* attribute or list write is its own step.                                *)
(***************************************************************************)
\* limit=10000 of the corpus fetch
AllDocumentsLimit == 10000

\* what the store holds: every ordering of every set of chunks, as the hits
\* of the zero query vector
Corpora ==
    {[i \in DOMAIN p |-> FormattedResult(p[i], Zero)] : p \in InjSeqs(Chunks)}

\* _tokenize_text(text): the tokens of a text, held as the chunk they are
\* the tokens of
_tokenize_text(text) == [tokens_of |-> text.chunk]

\* the score the index gives a tokenized document for the query of the
\* concurrent search, a query on article 12 of code_penal: its first chunk
\* scores 2, its second chunk 1, a chunk of another code 0
QueryScore(tokens) ==
    IF tokens.tokens_of[1] = "code_penal"
    THEN Rat(3 - tokens.tokens_of[5], 1)
    ELSE Zero

\* BM25Okapi(tokenized_docs), as get_scores sees it
BM25Okapi(tokenized) ==
    [built |-> TRUE,
     scores |-> [i \in DOMAIN tokenized |-> QueryScore(tokenized[i])]]

\* the index state _create_bm25_index leaves for a corpus when nothing
\* fails: a complete snapshot
SnapshotOf(corpus) ==
    IF corpus = <<>> THEN NoIndex
    ELSE [docs |-> [i \in DOMAIN corpus |-> corpus[i].text],
          metas |-> [i \in DOMAIN corpus |-> corpus[i].metadata],
          index |-> BM25Okapi([i \in DOMAIN corpus |->
                                  _tokenize_text(corpus[i].text)])]

NoCache == [exists |-> FALSE]

\* the three attributes of the engine
ActiveSnapshot ==
    [docs |-> documents, metas |-> metadata_list, index |-> bm25_index]

InitIndex ==
    /\ points \in Corpora
    /\ \E corpus \in Corpora :
          /\ bm25_index = SnapshotOf(corpus).index
          /\ documents = SnapshotOf(corpus).docs
          /\ metadata_list = SnapshotOf(corpus).metas
          /\ old_snapshot = SnapshotOf(corpus)
          /\ cache = IF corpus = <<>> THEN NoCache
                     ELSE [exists |-> TRUE, state |-> SnapshotOf(corpus)]
          /\ artifact = cache
    /\ HybridIdle
    /\ RequestIdle
    /\ ConfidenceIdle
    /\ GroupIdle
    /\ AskIdle
    /\ r_pc = "remove_cache"
    /\ r_outcome = "pending"
    /\ all_results = <<>>
    /\ tokenized_docs = <<>>
    /\ q_pc = "check_index"
    /\ q_began = "idle"
    /\ q_limit \in 1..MaxLimit
    /\ q_tokens \in QueryTokenCounts
    /\ q_scored_docs = <<>>
    /\ q_text = <<>>
    /\ q_results = <<>>
    /\ rebuilds = 1
    /\ first_results = <<>>
    /\ first_outcome = "pending"

\* what a step of the rebuild leaves alone besides its own variables
RebuildFrame ==
    /\ UNCHANGED <<points, hybrid_vars, request_vars, confidence_vars,
                   query_vars, group_vars, ask_vars, old_snapshot, artifact,
                   rebuilds, first_results, first_outcome>>

\* if self.bm25_cache_path.exists(): os.remove(...); os.remove raising ends
\* the rebuild in the except of rebuild_bm25_index
RemoveCache ==
    /\ r_pc = "remove_cache"
    /\ \E ok \in BOOLEAN :
          IF ok \/ ~cache.exists
          THEN cache' = NoCache /\ r_pc' = "fetch" /\ r_outcome' = r_outcome
          ELSE cache' = cache /\ r_pc' = "done" /\ r_outcome' = "remove_raised"
    /\ UNCHANGED <<bm25_index, documents, metadata_list, all_results,
                   tokenized_docs>>
    /\ RebuildFrame

\* all_results = self.vector_store.search(zeros, limit=10000): the points,
\* [] when the store's own except caught a failure, or an exception raised
\* around the call and caught by the except of _create_bm25_index
FetchCorpus ==
    /\ r_pc = "fetch"
    /\ \E raises, ok \in BOOLEAN :
          IF raises
          THEN /\ all_results' = all_results
               /\ r_pc' = "done"
               /\ r_outcome' = "fetch_raised"
          ELSE /\ all_results' = search(points, AllDocumentsLimit, ok)
               /\ r_pc' = "reset_documents"
               /\ r_outcome' = r_outcome
    /\ UNCHANGED <<bm25_index, documents, metadata_list, cache, tokenized_docs>>
    /\ RebuildFrame

\* self.documents = []
ResetDocuments ==
    /\ r_pc = "reset_documents"
    /\ documents' = <<>>
    /\ r_pc' = "reset_metadata"
    /\ UNCHANGED <<bm25_index, metadata_list, cache, all_results,
                   tokenized_docs, r_outcome>>
    /\ RebuildFrame

\* the second reset keeping the tokens of an earlier build
ResetMetadata_keep_tokens ==
    /\ r_pc = "reset_metadata"
    /\ metadata_list' = <<>>
    /\ tokenized_docs' = tokenized_docs
    /\ r_pc' = IF all_results = <<>> THEN "build" ELSE "append_document"
    /\ UNCHANGED <<bm25_index, documents, cache, all_results, r_outcome>>
    /\ RebuildFrame

\* self.metadata_list = []; tokenized_docs = []
ResetMetadata ==
    /\ r_pc = "reset_metadata"
    /\ metadata_list' = <<>>
    /\ tokenized_docs' = <<>>
    /\ r_pc' = IF all_results = <<>> THEN "build" ELSE "append_document"
    /\ UNCHANGED <<bm25_index, documents, cache, all_results, r_outcome>>
    /\ RebuildFrame

\* self.documents.append(text)
AppendDocument ==
    /\ r_pc = "append_document"
    /\ documents' = Append(documents, all_results[Len(documents) + 1].text)
    /\ r_pc' = "append_metadata"
    /\ UNCHANGED <<bm25_index, metadata_list, cache, all_results,
                   tokenized_docs, r_outcome>>
    /\ RebuildFrame

\* self.metadata_list.append(result['metadata']);
\* tokenized_docs.append(self._tokenize_text(text))
AppendMetadata ==
    /\ r_pc = "append_metadata"
    /\ LET result == all_results[Len(metadata_list) + 1]
       IN  /\ metadata_list' = Append(metadata_list, result.metadata)
           /\ tokenized_docs' = Append(tokenized_docs, _tokenize_text(result.text))
    /\ r_pc' = IF Len(metadata_list) + 1 < Len(all_results)
               THEN "append_document" ELSE "build"
    /\ UNCHANGED <<bm25_index, documents, cache, all_results, r_outcome>>
    /\ RebuildFrame

\* if tokenized_docs: self.bm25_index = BM25Okapi(tokenized_docs), which
\* raises when no document has a token; else: the warning
BuildIndex ==
    /\ r_pc = "build"
    /\ IF tokenized_docs = <<>>
       THEN /\ bm25_index' = bm25_index
            /\ r_pc' = "done"
            /\ r_outcome' = "no_documents"
       ELSE \E ok \in BOOLEAN :
              IF ok
              THEN /\ bm25_index' = BM25Okapi(tokenized_docs)
                   /\ r_pc' = "dump"
                   /\ r_outcome' = "swapped"
              ELSE /\ bm25_index' = bm25_index
                   /\ r_pc' = "done"
                   /\ r_outcome' = "build_raised"
    /\ UNCHANGED <<documents, metadata_list, cache, all_results, tokenized_docs>>
    /\ RebuildFrame

\* pickle.dump of the three attributes; a failure is logged
DumpCache ==
    /\ r_pc = "dump"
    /\ \E ok \in BOOLEAN :
          cache' = IF ok THEN [exists |-> TRUE, state |-> ActiveSnapshot]
                   ELSE cache
    /\ r_pc' = "done"
    /\ UNCHANGED <<bm25_index, documents, metadata_list, all_results,
                   tokenized_docs, r_outcome>>
    /\ RebuildFrame

(***************************************************************************)
(* HybridSearchEngine(config, embedding_model, vector_store): the          *)
(* constructor ends with _load_or_create_bm25_index().                     *)
(***************************************************************************)
\* a bm25_index.pkl that pickle cannot load
CorruptCache == [exists |-> TRUE]

\* what the constructor can find at bm25_cache_path: nothing, a file that
\* does not load, or the state an earlier _create_bm25_index dumped for the
\* corpus of that time
Artifacts ==
    {NoCache, CorruptCache}
        \cup {[exists |-> TRUE, state |-> SnapshotOf(corpus)]
                 : corpus \in Corpora \ {<<>>}}

InitLoad ==
    /\ points \in Corpora
    /\ bm25_index = NoIndex.index
    /\ documents = NoIndex.docs
    /\ metadata_list = NoIndex.metas
    /\ old_snapshot = NoIndex
    /\ cache \in Artifacts
    /\ artifact = cache
    /\ HybridIdle
    /\ RequestIdle
    /\ ConfidenceIdle
    /\ GroupIdle
    /\ AskIdle
    /\ r_pc = "load"
    /\ r_outcome = "pending"
    /\ all_results = <<>>
    /\ tokenized_docs = <<>>
    /\ q_pc = "idle"
    /\ q_began = "idle"
    /\ q_limit = 0
    /\ q_tokens = 0
    /\ q_scored_docs = <<>>
    /\ q_text = <<>>
    /\ q_results = <<>>
    /\ rebuilds = 0
    /\ first_results = <<>>
    /\ first_outcome = "pending"

\* _load_or_create_bm25_index: the file exists and loads: its three entries
\* become the engine's attributes; it exists and does not load, or it does
\* not exist: _create_bm25_index()
LoadOrCreate ==
    /\ r_pc = "load"
    /\ IF cache.exists /\ "state" \in DOMAIN cache
       THEN /\ bm25_index' = cache.state.index
            /\ documents' = cache.state.docs
            /\ metadata_list' = cache.state.metas
            /\ r_outcome' = "loaded"
            /\ r_pc' = "done"
       ELSE /\ UNCHANGED <<bm25_index, documents, metadata_list, r_outcome>>
            /\ r_pc' = "fetch"
    /\ UNCHANGED <<cache, all_results, tokenized_docs>>
    /\ RebuildFrame

NextLoad ==
    \/ LoadOrCreate \/ FetchCorpus \/ ResetDocuments \/ ResetMetadata
    \/ AppendDocument \/ AppendMetadata \/ BuildIndex \/ DumpCache

SpecLoad == InitLoad /\ [][NextLoad]_vars

\* what a step of the concurrent search leaves alone besides its own
\* variables
QueryFrame ==
    /\ UNCHANGED <<store_vars, hybrid_vars, request_vars, confidence_vars,
                   rebuild_vars, group_vars, ask_vars, q_limit, q_tokens>>

\* the (idx, score) pairs with a positive score, best first
ScoredDocs(scores) ==
    LET idxs == SelectSeq([i \in DOMAIN scores |-> i],
                          LAMBDA i : RLt(Zero, scores[i]))
        sorted == SortDesc(idxs, [n \in DOMAIN idxs |-> scores[idxs[n]]])
    IN  [n \in DOMAIN sorted |-> [idx |-> sorted[n], score |-> scores[sorted[n]]]]

\* if not self.bm25_index: return []; if not query_tokens: return []
QueryCheckIndex ==
    /\ q_pc = "check_index"
    /\ q_began' = r_pc
    /\ q_pc' = IF bm25_index.built /\ q_tokens # 0 THEN "get_scores" ELSE "done"
    /\ UNCHANGED <<q_scored_docs, q_text, q_results>>
    /\ QueryFrame

\* scores = self.bm25_index.get_scores(query_tokens); scored_docs, sorted
\* and cut to limit
QueryGetScores ==
    /\ q_pc = "get_scores"
    /\ q_scored_docs' = Take(ScoredDocs(bm25_index.scores), q_limit)
    /\ q_pc' = IF Take(ScoredDocs(bm25_index.scores), q_limit) = <<>>
               THEN "done" ELSE "read_text"
    /\ UNCHANGED <<q_began, q_text, q_results>>
    /\ QueryFrame

\* 'text': self.documents[idx]; an IndexError ends the search in its except:
\* return []
QueryReadText ==
    /\ q_pc = "read_text"
    /\ LET idx == q_scored_docs[Len(q_results) + 1].idx
       IN  IF idx \in DOMAIN documents
           THEN /\ q_text' = <<documents[idx]>>
                /\ q_results' = q_results
                /\ q_pc' = "read_metadata"
           ELSE /\ q_text' = <<>>
                /\ q_results' = <<>>
                /\ q_pc' = "done"
    /\ UNCHANGED <<q_began, q_scored_docs>>
    /\ QueryFrame

\* 'metadata': self.metadata_list[idx], and results.append(result)
QueryReadMetadata ==
    /\ q_pc = "read_metadata"
    /\ LET scored == q_scored_docs[Len(q_results) + 1]
       IN  IF scored.idx \in DOMAIN metadata_list
           THEN /\ q_results' = Append(q_results,
                                       [text |-> q_text[1],
                                        metadata |-> metadata_list[scored.idx],
                                        score |-> scored.score,
                                        search_type |-> "bm25",
                                        bm25_score |-> scored.score])
                /\ q_pc' = IF Len(q_results) + 1 < Len(q_scored_docs)
                           THEN "read_text" ELSE "done"
           ELSE /\ q_results' = <<>>
                /\ q_pc' = "done"
    /\ q_text' = <<>>
    /\ UNCHANGED <<q_began, q_scored_docs>>
    /\ QueryFrame

(***************************************************************************)
(* rebuild_bm25_index() called twice on an unchanged store, a _bm25_search *)
(* after each call, nothing running at the same time.                      *)
(***************************************************************************)
InitRebuild ==
    /\ points \in Corpora
    /\ \E corpus \in Corpora :
          /\ bm25_index = SnapshotOf(corpus).index
          /\ documents = SnapshotOf(corpus).docs
          /\ metadata_list = SnapshotOf(corpus).metas
          /\ old_snapshot = SnapshotOf(corpus)
          /\ cache = IF corpus = <<>> THEN NoCache
                     ELSE [exists |-> TRUE, state |-> SnapshotOf(corpus)]
          /\ artifact = cache
    /\ HybridIdle
    /\ RequestIdle
    /\ ConfidenceIdle
    /\ GroupIdle
    /\ AskIdle
    /\ r_pc = "remove_cache"
    /\ r_outcome = "pending"
    /\ all_results = <<>>
    /\ tokenized_docs = <<>>
    /\ q_pc = "idle"
    /\ q_began = "idle"
    /\ q_limit \in 1..MaxLimit
    /\ q_tokens \in QueryTokenCounts
    /\ q_scored_docs = <<>>
    /\ q_text = <<>>
    /\ q_results = <<>>
    /\ rebuilds = 1
    /\ first_results = <<>>
    /\ first_outcome = "pending"

\* _bm25_search(question, limit) called once the rebuild has returned
SearchAfterRebuild ==
    /\ r_pc = "done"
    /\ q_pc = "idle"
    /\ q_pc' = "check_index"
    /\ UNCHANGED <<q_began, q_scored_docs, q_text, q_results>>
    /\ QueryFrame

\* rebuild_bm25_index() called a second time, after the search has returned
RebuildAgain ==
    /\ rebuilds = 1
    /\ r_pc = "done"
    /\ q_pc = "done"
    /\ first_results' = q_results
    /\ first_outcome' = r_outcome
    /\ rebuilds' = 2
    /\ r_pc' = "remove_cache"
    /\ r_outcome' = "pending"
    /\ q_pc' = "idle"
    /\ q_scored_docs' = <<>>
    /\ q_text' = <<>>
    /\ q_results' = <<>>
    /\ UNCHANGED <<store_vars, hybrid_vars, request_vars, confidence_vars,
                   group_vars, ask_vars, cache, old_snapshot, artifact,
                   all_results, tokenized_docs, q_began, q_limit, q_tokens>>

NextRebuild ==
    \/ RemoveCache \/ FetchCorpus \/ ResetDocuments \/ ResetMetadata
    \/ AppendDocument \/ AppendMetadata \/ BuildIndex \/ DumpCache
    \/ SearchAfterRebuild \/ RebuildAgain
    \/ QueryCheckIndex \/ QueryGetScores \/ QueryReadText \/ QueryReadMetadata

SpecRebuild == InitRebuild /\ [][NextRebuild]_vars

NextIndex ==
    \/ RemoveCache \/ FetchCorpus \/ ResetDocuments \/ ResetMetadata
    \/ AppendDocument \/ AppendMetadata \/ BuildIndex \/ DumpCache
    \/ QueryCheckIndex \/ QueryGetScores \/ QueryReadText \/ QueryReadMetadata

SpecIndex == InitIndex /\ [][NextIndex]_vars

(***************************************************************************)
(* Score fusion: properties of hybrid_search.                              *)
(***************************************************************************)
\* the fragment a hit is a hit of: (code_source, article_number, chunk_index)
FragmentOf(hit) ==
    <<hit.metadata.code_source, hit.metadata.article_number, hit.metadata.chunk_index>>

Fragments(hits) == {FragmentOf(hits[i]) : i \in DOMAIN hits}

\* the normalized score a fragment has in a normalized hit list, 0 when the
\* fragment is not in the list
NormIn(hits, norm_key, fragment) ==
    IF fragment \in Fragments(hits)
    THEN hits[CHOOSE i \in DOMAIN hits : FragmentOf(hits[i]) = fragment][norm_key]
    ELSE Zero

NormalizedWell(raw, normed, score_key) ==
    raw # <<>> =>
        LET nk == NormKey(score_key)
        IN  /\ Len(normed) = Len(raw)
            /\ IF \E i, j \in DOMAIN raw : raw[i][score_key] # raw[j][score_key]
               THEN /\ \E i \in DOMAIN normed : normed[i][nk] = One
                    /\ \E i \in DOMAIN normed : normed[i][nk] = Zero
                    /\ \A i \in DOMAIN normed :
                          RLe(Zero, normed[i][nk]) /\ RLe(normed[i][nk], One)
               ELSE \A i \in DOMAIN normed : normed[i][nk] = One

\* C2: each non-empty hit list is normalized on its own: when its raw scores
\* differ, the largest normalized value is exactly 1, the smallest exactly 0
\* and all lie in [0,1]; when they are all equal (a single hit included),
\* every normalized value is 1.
C2_NormalizeScores ==
    h_pc = "done" =>
        /\ NormalizedWell(vector_results, vector_normalized, "vector_score")
        /\ NormalizedWell(bm25_results, bm25_normalized, "bm25_score")

\* C2 witness: fusion has run on a vector list with a value strictly between
\* 0 and 1 and on a keyword list of several hits with one and the same score.
C2_Witness ==
    /\ h_pc = "done"
    /\ \E i \in DOMAIN vector_normalized :
          vector_normalized[i]["vector_score_norm"] \notin {Zero, One}
    /\ Len(bm25_normalized) >= 2
    /\ \A i \in DOMAIN bm25_results : bm25_results[i].score = bm25_results[1].score

\* C3: every fragment in the output of _merge_results has
\* fused_score = 0.4 * vector_norm + 0.6 * keyword_norm, where a norm is the
\* fragment's normalized score in that list, and 0 if the fragment is not in
\* that list.
C3_FusedScore ==
    h_pc = "done" =>
        \A n \in DOMAIN merged_results :
            merged_results[n].score =
                RAdd(RMul(Rat(4, 10),
                          NormIn(vector_normalized, "vector_score_norm",
                                 FragmentOf(merged_results[n]))),
                     RMul(Rat(6, 10),
                          NormIn(bm25_normalized, "bm25_score_norm",
                                 FragmentOf(merged_results[n]))))

\* C4: fusion keys fragments by (code_source, article_number, chunk_index):
\* every fragment hit by either search keeps its own entry in the merged set,
\* and an entry is tagged hybrid only if that very fragment is in both lists.
C4_FragmentKey ==
    h_pc = "done" =>
        /\ \A f \in Fragments(vector_results) \cup Fragments(bm25_results) :
              \E i \in DOMAIN merged_docs : FragmentOf(merged_docs[i].v) = f
        /\ \A i \in DOMAIN merged_docs :
              merged_docs[i].v.search_type = "hybrid" =>
                  /\ FragmentOf(merged_docs[i].v) \in Fragments(vector_results)
                  /\ FragmentOf(merged_docs[i].v) \in Fragments(bm25_results)

\* the provenance tag the lists call for
TagFor(fragment) ==
    CASE fragment \in Fragments(vector_results) \ Fragments(bm25_results) -> "vector"
      [] fragment \in Fragments(bm25_results) \ Fragments(vector_results) -> "bm25"
      [] fragment \in Fragments(vector_results) \cap Fragments(bm25_results) -> "hybrid"
      [] OTHER -> "none"

\* C5: a fused fragment is tagged 'vector' exactly when it is only in the
\* vector list, 'bm25' exactly when it is only in the keyword list, and
\* 'hybrid' exactly when it is in both.
C5_Provenance ==
    h_pc = "done" =>
        \A n \in DOMAIN merged_results :
            merged_results[n].search_type = TagFor(FragmentOf(merged_results[n]))

\* C6: the result of _merge_results is in non-increasing fused_score order,
\* has at most `limit` entries, and is the `limit` best of the merged set: no
\* merged entry left out scores strictly higher than one returned.
C6_SortedTopLimit ==
    h_pc = "done" =>
        LET merged == {merged_docs[i].v : i \in DOMAIN merged_docs}
            returned == {merged_results[n] : n \in DOMAIN merged_results}
        IN  /\ \A n \in 1..(Len(merged_results) - 1) :
                  RLe(merged_results[n + 1].score, merged_results[n].score)
            /\ Len(merged_results) <= limit
            /\ Len(merged_results) =
                  (IF Len(merged_docs) < limit THEN Len(merged_docs) ELSE limit)
            /\ Cardinality(returned) = Len(merged_results)
            /\ returned \subseteq merged
            /\ \A out \in merged \ returned : \A r \in returned :
                  RLe(out.score, r.score)

\* C6 witness: the merged set is larger than the limit, its entries do not
\* all score the same, and the best one was inserted after a worse one.
C6_Witness ==
    /\ h_pc = "done"
    /\ Len(merged_docs) > limit
    /\ Len(merged_results) = limit
    /\ \E i, j \in DOMAIN merged_docs :
          i < j /\ RLt(merged_docs[i].v.score, merged_docs[j].v.score)
(***************************************************************************)
(* The request pipeline: properties of search_and_answer.                  *)
(***************************************************************************)
\* stage a ran, and stage b ran after it
RanBefore(a, b) ==
    \E i, j \in DOMAIN stages : i < j /\ stages[i] = a /\ stages[j] = b

Ran(a) == \E i \in DOMAIN stages : stages[i] = a

\* the request went through aggregation and assembly and returned
Answered == pc = "done" /\ Ran("Assemble")

\* C1: a request that reaches aggregation has run Reformulate, then both
\* VectorSearch and KeywordSearch, then Fuse, then Aggregate, then Assemble:
\* the keyword index was queried, fusion followed both searches, and the
\* hits grouped by article are fused hits, each carrying its fused score.
C1_PipelineOrder ==
    Answered =>
        /\ RanBefore("Reformulate", "VectorSearch")
        /\ Ran("KeywordSearch")
        /\ RanBefore("VectorSearch", "Fuse")
        /\ RanBefore("KeywordSearch", "Fuse")
        /\ RanBefore("Fuse", "Aggregate")
        /\ RanBefore("Aggregate", "Assemble")
        /\ \A i \in DOMAIN grouped_results :
              \A n \in DOMAIN grouped_results[i].v :
                  "hybrid_score" \in DOMAIN grouped_results[i].v[n]

\* the scores of the hits of one article among the hits that were grouped
ScoresOfArticle(key) ==
    LET hits == SelectSeq(search_results, LAMBDA h : ArticleKey(h.metadata) = key)
    IN  [i \in DOMAIN hits |-> hits[i].score]

\* 0.7 * (highest score of the article) + 0.3 * (mean score of the article)
Composite(key) ==
    RAdd(RMul(Rat(7, 10), RMax(ScoresOfArticle(key))),
         RMul(Rat(3, 10),
              RDiv(RSum(ScoresOfArticle(key)), Rat(Len(ScoresOfArticle(key)), 1))))

Penal12 == ArticleKey(Metadata("code_penal", "12", 0))
Travail41 == ArticleKey(Metadata("code_travail", "41", 0))

\* C7: the article groups are in non-increasing order of composite score,
\* 0.7 * best + 0.3 * mean of the article's fragment scores; on the worked
\* example article 12 (0.8375) comes before article 41 (0.81).
C7_CompositeOrder ==
    pc \in {"generate", "assemble", "done"} =>
        /\ \A i \in 1..(Len(grouped_results) - 1) :
              RLe(Composite(grouped_results[i + 1].k), Composite(grouped_results[i].k))
        /\ (points = WorkedExample /\ grouped_results # <<>>) =>
              /\ DictKeys(grouped_results) = <<Penal12, Travail41>>
              /\ Composite(Penal12) = Rat(8375, 10000)
              /\ Composite(Travail41) = Rat(81, 100)

\* C7 witness: the worked example has been grouped.
C7_Witness ==
    /\ pc = "generate"
    /\ points = WorkedExample
    /\ Len(grouped_results) = 2
    /\ Len(grouped_results[1].v) = 2
    /\ Len(grouped_results[2].v) = 3

\* the place of an article identity in ascending (code_source, article_number)
\* order
IdentityRank(key) ==
    CASE key = Penal12 -> 1
      [] key = Travail41 -> 2

\* C8: article groups with equal composite scores are in ascending order of
\* article identity, whatever the order of the fragments in the input.
C8_TieBreak ==
    pc \in {"generate", "assemble", "done"} =>
        \A i, j \in DOMAIN grouped_results :
            (i < j /\ Composite(grouped_results[i].k) = Composite(grouped_results[j].k))
                => IdentityRank(grouped_results[i].k) < IdentityRank(grouped_results[j].k)

\* the list the response's sources were extracted from
SourcesInput == Take(flattened_results, max_results)

\* the article identity a source entry names
SourceIdentity(source) == <<source.code_source, source.article_number>>
HitIdentity(hit) ==
    <<CodeDisplay(hit.metadata.code_source), hit.metadata.article_number>>

FirstOf(hits, identity) ==
    hits[CHOOSE i \in DOMAIN hits :
            /\ HitIdentity(hits[i]) = identity
            /\ \A j \in 1..(i - 1) : HitIdentity(hits[j]) # identity]

\* C9: the sources never hold two entries of one article: every article of
\* the input has exactly one entry, made from its first occurrence, and in a
\* request that entry's relevance_score is the highest relevance score (the
\* score, rounded to 3 decimals) among the fragments the search returned for
\* that article.
C9_SourcesDeduplicated ==
    Answered =>
        LET sources == response.sources
        IN  /\ \A i, j \in DOMAIN sources :
                  i # j => SourceIdentity(sources[i]) # SourceIdentity(sources[j])
            /\ {SourceIdentity(sources[i]) : i \in DOMAIN sources}
                  = {HitIdentity(SourcesInput[n]) : n \in DOMAIN SourcesInput}
            /\ \A i \in DOMAIN sources :
                  LET first == FirstOf(SourcesInput, SourceIdentity(sources[i]))
                  IN  /\ sources[i].relevance_score = Round3(first.score)
                      /\ sources[i].text_preview = TextPreview(first.text)
                      /\ sources[i].relevance_score =
                            Round3(RMax(ScoresOfArticle(ArticleKey(first.metadata))))
                      /\ \A n \in DOMAIN search_results :
                            HitIdentity(search_results[n]) = SourceIdentity(sources[i])
                                => RLe(Round3(search_results[n].score),
                                       sources[i].relevance_score)

\* C9 witness: a response whose sources were extracted from two fragments of
\* one article with different scores, one of them rounded.
C9_Witness ==
    /\ Answered
    /\ Len(response.sources) = 1
    /\ Len(SourcesInput) = 2
    /\ SourcesInput[1].score # SourcesInput[2].score
    /\ \E n \in DOMAIN SourcesInput : Round3(SourcesInput[n].score) # SourcesInput[n].score

\* C10: in a response that is not degraded the sources are ExtractSources of
\* the context passed to the generation collaborator (the flattened list cut
\* to 10): every article with a fragment in that context has exactly one
\* entry in the sources.
C10_SourcesCoverContext ==
    Answered =>
        LET context == llm_call[1].legal_context
            sources == response.sources
        IN  /\ sources = _extract_sources(context)
            /\ \A n \in DOMAIN context :
                  Cardinality({i \in DOMAIN sources :
                      SourceIdentity(sources[i]) = HitIdentity(context[n])}) = 1
(***************************************************************************)
(* Confidence: properties of _calculate_confidence.                        *)
(***************************************************************************)
\* x bounded to [0, 1] from both sides
Clamp01(x) == IF RLt(x, Zero) THEN Zero ELSE IF RLt(One, x) THEN One ELSE x

\* mean score of the first min(5, n) fragments
MeanTop5(xs) ==
    LET k == IF Len(xs) < 5 THEN Len(xs) ELSE 5
    IN  RDiv(RSum([i \in 1..k |-> xs[i].score]), Rat(k, 1))

\* min(n / 3, 1.0)
SourceFactor(xs) == IF Len(xs) < 3 THEN Rat(Len(xs), 3) ELSE One

\* 1.1 if any fragment is tagged 'hybrid', else 1.0
HybridBonus(xs) ==
    IF \E i \in DOMAIN xs : xs[i].search_type = "hybrid" THEN Rat(11, 10) ELSE One

\* round3(clamp01(A * F * B))
ExpectedConfidence(xs) ==
    Round3(Clamp01(RMul(RMul(MeanTop5(xs), SourceFactor(xs)), HybridBonus(xs))))

\* C11: for a non-empty flattened list _calculate_confidence returns
\* round3(clamp01(A * F * B)), A the mean score of the first min(5, n)
\* fragments, F = min(n / 3, 1.0), B = 1.1 if any fragment is tagged 'hybrid'
\* and 1.0 otherwise, clamp01 bounding the value to [0, 1] from both sides.
C11_ConfidenceFormula ==
    (c_pc \in {"second", "done"} /\ c_first # <<>>) =>
        c_confidence_first = ExpectedConfidence(c_first)

\* C11 without the lower bound: what the code computes,
\* round3(min(A * F * B, 1.0)).
C11_UpperClampOnly ==
    (c_pc \in {"second", "done"} /\ c_first # <<>>) =>
        LET raw == RMul(RMul(MeanTop5(c_first), SourceFactor(c_first)),
                        HybridBonus(c_first))
        IN  c_confidence_first = Round3(IF RLt(One, raw) THEN One ELSE raw)

\* C13: confidence is monotone in the fragment scores: of two flattened lists
\* of the same length and the same provenance tags, the second's top-5
\* scores each at least the first's, the second's confidence is at least the
\* first's.
C13_ConfidenceMonotone ==
    c_pc = "done" => RLe(c_confidence_first, c_confidence_second)

\* C13 witness: two lists of six fragments, the second with a higher score
\* among its first five and a lower sixth score, and a higher confidence.
C13_Witness ==
    /\ c_pc = "done"
    /\ Len(c_first) = 6
    /\ \E i \in 1..5 : RLt(c_first[i].score, c_second[i].score)
    /\ RLt(c_second[6].score, c_first[6].score)
    /\ RLt(c_confidence_first, c_confidence_second)

\* x lies in [0, 1]
InUnitInterval(x) == RLe(Zero, x) /\ RLe(x, One)

\* C12: in every response of search_and_answer, whatever scores the vector
\* store returned (negative, above 1), the confidence lies in [0, 1] and so
\* does the relevance_score of every source.
C12_ScoresInUnitInterval ==
    response.returned =>
        /\ InUnitInterval(response.confidence)
        /\ \A i \in DOMAIN response.sources :
              InUnitInterval(response.sources[i].relevance_score)

(***************************************************************************)
(* Degraded responses and failures of search_and_answer.                   *)
(***************************************************************************)
\* every hit the keyword index has for a query whose tokens it knows
KeywordHits ==
    _bm25_search(bm25_index, documents, metadata_list, UserQuestion.tokens,
                 Len(documents))

\* the fixed degraded response: 'no information found', no sources,
\* confidence 0.0, search_results_count 0
IsDegraded(resp) ==
    /\ resp.returned
    /\ DOMAIN resp = {"returned", "answer", "sources", "confidence",
                      "search_results_count"}
    /\ resp.answer = "Aucune information trouvee dans les textes juridiques."
    /\ resp.sources = <<>>
    /\ resp.confidence = Zero
    /\ resp.search_results_count = 0

\* the request ended without an exception reaching the outer except
EndedNormally == pc = "done" /\ exception = "None"

\* C14: when the vector search and the keyword search both return no hits,
\* search_and_answer returns the fixed degraded response (confidence 0.0, no
\* sources, search_results_count 0, the 'no information found' answer) and
\* the generation collaborator is not called.
C14_NoHitsDegraded ==
    (EndedNormally /\ Ran("VectorSearch") /\ search_results = <<>>
        /\ KeywordHits = <<>>)
        => IsDegraded(response) /\ llm_call = <<>>

\* C14 witness: a request on an empty store returned.
C14_Witness ==
    /\ EndedNormally
    /\ Ran("VectorSearch")
    /\ search_results = <<>>
    /\ KeywordHits = <<>>
    /\ response.returned

\* C15: when the fragment list is empty at any stage (after the search,
\* after grouping, after the top-K selection, after flattening),
\* search_and_answer returns the fixed degraded response and not an answer
\* the generation collaborator produced from an empty context.
C15_EmptyStageDegraded ==
    (EndedNormally /\ Ran("VectorSearch")
        /\ (\/ search_results = <<>>
            \/ grouped_results = <<>>
            \/ Take(DictValues(grouped_results), max_results) = <<>>
            \/ flattened_results = <<>>))
        => IsDegraded(response) /\ llm_call = <<>>

\* C16: search_and_answer never raises: whatever fails (the embedding, the
\* vector search, the grouping, the generation) the request is at one of its
\* stages until it ends, and it ends with a response holding answer, sources, confidence and
\* search_results_count, and a failure the stages do not handle themselves
\* gives the generic 'search error' response with confidence 0.0 and no
\* sources.
C16_NeverRaises ==
    /\ pc \in {"reformulate", "vector_search", "aggregate", "generate",
               "assemble", "done"}
    /\ response.returned <=> pc = "done"
    /\ pc = "done" =>
          /\ {"answer", "sources", "confidence", "search_results_count"}
                \subseteq DOMAIN response
    /\ exception # "None" =>
          /\ pc = "done"
          /\ response.answer = "Une erreur s'est produite lors de la recherche."
          /\ response.sources = <<>>
          /\ response.confidence = Zero

\* C16 witness: the grouping raised after a search that found hits, and the
\* request returned.
C16_Witness ==
    /\ pc = "done"
    /\ exception = "grouping"
    /\ search_results # <<>>
    /\ response.returned

\* C17: _reformulate_to_legal_terms returns the original question when the
\* reformulation call raises or answers with an empty text or a text of
\* fewer than 3 tokens, and the rewritten text only when it has at least 3
\* tokens; it never raises.
C17_ReformulationFallback ==
    Ran("Reformulate") =>
        /\ exception # "reformulate"
        /\ (reformulation.raised \/ reformulation.tokens < 3)
              => enriched_question = question
        /\ (~reformulation.raised /\ reformulation.tokens >= 3)
              => enriched_question = Rewritten(reformulation.tokens)

\* C17 witness: the model answered with a text of two tokens and the
\* original question was kept.
C17_Witness ==
    /\ Ran("Reformulate")
    /\ ~reformulation.raised
    /\ reformulation.tokens = 2
    /\ enriched_question = question

(***************************************************************************)
(* The keyword index: properties of rebuild_bm25_index and of a concurrent *)
(* _bm25_search.                                                           *)
(***************************************************************************)
\* the complete snapshots there are during a rebuild: the one that was
\* active when it began and, when the store holds documents, the one built
\* from them
CompleteSnapshots ==
    {old_snapshot} \cup (IF points = <<>> THEN {} ELSE {SnapshotOf(points)})

\* what _bm25_search returns on a snapshot
ResultsOn(snapshot) ==
    _bm25_search(snapshot.index, snapshot.docs, snapshot.metas, q_tokens,
                 q_limit)

\* C18: in every reachable state, the intermediate states of a rebuild
\* included, the active index state (ranking structure, documents, metadata)
\* is one complete snapshot, all three old or all three new, and the
\* documents and the metadata have as many entries as the ranking structure
\* has documents.
C18_OneSnapshot ==
    r_pc # "idle" =>
        /\ ActiveSnapshot \in CompleteSnapshots
        /\ Len(documents) = Len(metadata_list)
        /\ bm25_index.built => Len(bm25_index.scores) = Len(documents)

\* C19: a _bm25_search that runs while rebuild_bm25_index runs computes its
\* scores and resolves texts and metadata against one snapshot: what it
\* returns is what it returns on the old snapshot or on the new one, never
\* scores of one with documents of the other, never an empty or failed
\* result the interleaving caused.
C19_QueryOneSnapshot ==
    (q_pc = "done" /\ q_began # "done") =>
        \E snapshot \in CompleteSnapshots : q_results = ResultsOn(snapshot)

\* the rebuild ended without a complete new snapshot
RebuildFailed ==
    /\ r_pc = "done"
    /\ r_outcome \in {"remove_raised", "fetch_raised", "no_documents",
                       "build_raised"}

\* C20: the active index is swapped on success only: after a rebuild that
\* did not produce a complete new snapshot (the corpus fetch raised or
\* returned no documents, or building failed) the ranking structure, the
\* documents and the metadata are unchanged and a keyword query returns what
\* it returned before.
C20_SwapOnSuccessOnly ==
    RebuildFailed =>
        /\ ActiveSnapshot = old_snapshot
        /\ (q_pc = "done" /\ q_began = "done")
              => q_results = ResultsOn(old_snapshot)

\* the constructor has finished
Constructed == r_pc = "done" /\ old_snapshot = NoIndex /\ q_pc = "idle"

\* C21: when the engine is constructed and a persisted index exists, it is
\* used only if it loads and holds as many documents as the corpus holds
\* now; when it does not load or the counts differ, a full rebuild from the
\* corpus has run when construction finishes, and construction finishes.
C21_LoadValidated ==
    (Constructed /\ artifact.exists) =>
        /\ r_outcome = "loaded" =>
              /\ "state" \in DOMAIN artifact
              /\ Len(documents) = Len(points)
        /\ ("state" \notin DOMAIN artifact
               \/ Len(artifact.state.docs) # Len(points))
              => r_outcome \in {"swapped", "no_documents", "build_raised",
                                "fetch_raised"}

(***************************************************************************)
(* Keyword search: properties of _bm25_search.                             *)
(***************************************************************************)
\* C23: _bm25_search(question, limit) returns only fragments with a keyword
\* score above 0, in non-increasing score order, at most `limit` of them
\* (hybrid_search passes limit * 2), each with the text and the metadata of
\* the document that has the score; it returns the empty list when the
\* question yields no token and when no index has been built.
C23_KeywordSearch ==
    h_pc \in {"merge", "done"} =>
        /\ \A n \in DOMAIN bm25_results : RLt(Zero, bm25_results[n].score)
        /\ \A n \in 1..(Len(bm25_results) - 1) :
              RLe(bm25_results[n + 1].score, bm25_results[n].score)
        /\ Len(bm25_results) <= limit * 2
        /\ \A n \in DOMAIN bm25_results :
              \E i \in DOMAIN documents :
                  /\ bm25_results[n].text = documents[i]
                  /\ bm25_results[n].metadata = metadata_list[i]
                  /\ bm25_results[n].score = bm25_index.scores[i]
        /\ h_tokens = 0 => bm25_results = <<>>
        /\ ~bm25_index.built => bm25_results = <<>>

\* C23 witness: an index of three documents that all score above 0, the
\* first lower than the second, searched with limit 2: two results.
C23_Witness ==
    /\ h_pc = "done"
    /\ limit = 1
    /\ Len(documents) = 3
    /\ \A i \in 1..3 : RLt(Zero, bm25_index.scores[i])
    /\ RLt(bm25_index.scores[1], bm25_index.scores[2])
    /\ Len(bm25_results) = 2

\* a rebuild outcome with no failure of the store, of BM25Okapi or of the
\* file system behind it
RanToCompletion(outcome) ==
    \/ outcome = "swapped"
    \/ outcome = "no_documents" /\ points = <<>>

\* C22: rebuilding is idempotent: after one rebuild_bm25_index and after two
\* consecutive rebuild_bm25_index calls on the same store, both run to
\* completion, _bm25_search returns the same fragments with the same scores
\* in the same order.
C22_RebuildIdempotent ==
    (rebuilds = 2 /\ r_pc = "done" /\ q_pc = "done"
        /\ RanToCompletion(first_outcome) /\ RanToCompletion(r_outcome))
        => q_results = first_results

\* C22 witness: two rebuilds replaced an index built from another corpus,
\* and the search after the second returned two fragments.
C22_Witness ==
    /\ rebuilds = 2
    /\ r_pc = "done"
    /\ q_pc = "done"
    /\ first_outcome = "swapped"
    /\ r_outcome = "swapped"
    /\ old_snapshot # SnapshotOf(points)
    /\ Len(q_results) = 2
    /\ q_results = first_results

(***************************************************************************)
(* What the generation collaborator is given.                              *)
(***************************************************************************)
\* the fragments the search returned for an article, best first
FragmentsOfArticle(key) ==
    LET hits == SelectSeq(search_results, LAMBDA h : ArticleKey(h.metadata) = key)
    IN  SortDesc(hits, [i \in DOMAIN hits |-> hits[i].score])

RECURSIVE Concatenated(_, _)
\* the fragments of the first k article groups, group after group
Concatenated(groups, k) ==
    IF k = 0 \/ groups = <<>> THEN <<>>
    ELSE FragmentsOfArticle(Head(groups).k) \o Concatenated(Tail(groups), k - 1)

\* C24: the generation collaborator is called with the user's original
\* question, not the reformulated one, and with the fragments of the top
\* max_results article groups, in group rank order and best first inside a
\* group, cut to at most 10 fragments.
C24_GenerationInput ==
    llm_call # <<>> =>
        /\ Len(llm_call) = 1
        /\ llm_call[1].original_question = question
        /\ Len(llm_call[1].legal_context) <= 10
        /\ llm_call[1].legal_context
              = Take(Concatenated(grouped_results, max_results), 10)

\* C24 witness: the question was rewritten, the two best articles hold
\* twelve fragments, and the generation was given ten.
C24_Witness ==
    /\ llm_call # <<>>
    /\ enriched_question # question
    /\ Len(grouped_results) = 2
    /\ Len(flattened_results) = 12
    /\ Len(llm_call[1].legal_context) = 10

(***************************************************************************)
(* The preview of a source.                                                *)
(***************************************************************************)
\* C25: every text_preview in the sources has at most 150 characters, the
\* ellipsis included: the text of the fragment the source was made from is
\* emitted unchanged when it has at most 150 characters, and cut and marked
\* with an ellipsis, the whole still within 150 characters, when it is
\* longer.
C25_PreviewLength ==
    Answered =>
        \A i \in DOMAIN response.sources :
            LET preview == response.sources[i].text_preview
                text == FirstOf(SourcesInput, SourceIdentity(response.sources[i])).text
            IN  /\ preview.len <= 150
                /\ text.len <= 150 => preview = text
                /\ text.len > 150 => preview.ellipsis /\ preview.chunk = text.chunk

(***************************************************************************)
(* Aggregation: properties of _group_chunks_by_article.                    *)
(***************************************************************************)
\* the composite scores of the groups of a grouping, in group order
CompositeScores(groups) ==
    [i \in DOMAIN groups |->
        LET scores == [n \in DOMAIN groups[i].v |-> groups[i].v[n].score]
        IN  RAdd(RMul(Rat(7, 10), RMax(scores)),
                 RMul(Rat(3, 10), RDiv(RSum(scores), Rat(Len(scores), 1))))]

ArticleOf(fragment) ==
    <<fragment.metadata.code_source, fragment.metadata.article_number>>

\* C28: _group_chunks_by_article partitions its input: every input fragment
\* is in exactly one group, once; the fragments of a group are of one
\* (code_source, article_number), whatever their chunk index; no two groups
\* are of the same article; the fragments of a group are in non-increasing
\* score order.
C28_GroupingPartition ==
    g_pc \in {"second", "done"} =>
        /\ \A i \in DOMAIN g_input :
              Cardinality({<<g, n>> \in (DOMAIN g_first) \X (1..Len(g_input)) :
                              /\ n \in DOMAIN g_first[g].v
                              /\ g_first[g].v[n] = g_input[i]}) = 1
        /\ \A g \in DOMAIN g_first :
              /\ g_first[g].v # <<>>
              /\ \A n \in DOMAIN g_first[g].v :
                    /\ \E i \in DOMAIN g_input : g_input[i] = g_first[g].v[n]
                    /\ ArticleOf(g_first[g].v[n]) = ArticleOf(g_first[g].v[1])
              /\ \A n \in 1..(Len(g_first[g].v) - 1) :
                    RLe(g_first[g].v[n + 1].score, g_first[g].v[n].score)
        /\ \A g, h \in DOMAIN g_first :
              g # h => ArticleOf(g_first[g].v[1]) # ArticleOf(g_first[h].v[1])

\* C28 witness: two chunks of one article, the lower-scored first, with a
\* chunk of another article between them, were grouped.
C28_Witness ==
    /\ g_pc = "second"
    /\ Len(g_input) = 3
    /\ ArticleOf(g_input[1]) = ArticleOf(g_input[3])
    /\ ArticleOf(g_input[1]) # ArticleOf(g_input[2])
    /\ RLt(g_input[1].score, g_input[3].score)
    /\ Len(g_first) = 2

(***************************************************************************)
(* Termination of a request.                                               *)
(***************************************************************************)
\* C27: every call of search_and_answer eventually returns a response, also
\* when the reformulation or the generation collaborator never answers.
C27_EventuallyReturns == <>(pc = "done" /\ response.returned)

(***************************************************************************)
(* Fusion: one entry per fragment.                                         *)
(***************************************************************************)
\* no two entries of the fused output are the same fragment
OneEntryPerFragment ==
    h_pc = "done" =>
        \A m, n \in DOMAIN merged_results :
            m # n => FragmentOf(merged_results[m]) # FragmentOf(merged_results[n])

\* C29: the output of _merge_results has at most one entry per fragment
\* identity, also when a list holds several hits of one key, and an entry is
\* tagged 'hybrid' only if its fragment is in both input lists.
C29_OneEntryHybridInBoth ==
    /\ OneEntryPerFragment
    /\ h_pc = "done" =>
          \A n \in DOMAIN merged_results :
              merged_results[n].search_type = "hybrid" =>
                  FragmentOf(merged_results[n]) \in
                      Fragments(vector_results) \cap Fragments(bm25_results)

(***************************************************************************)
(* POST /ask.                                                              *)
(***************************************************************************)
\* C30: once the search engine is initialized, every POST /ask request gets
\* a well-typed AnswerResponse (answer, sources, confidence,
\* search_results_count): no failure of the embedding model, the store or a
\* collaborator during the request reaches the caller as an HTTP 500.
C30_AlwaysAnswerResponse ==
    a_pc = "done" =>
        /\ http.status = 200
        /\ DOMAIN http.body =
              {"answer", "sources", "confidence", "search_results_count"}
        /\ \A i \in DOMAIN http.body.sources :
              DOMAIN http.body.sources[i] =
                  {"article_number", "code_source", "relevance_score",
                   "text_preview"}

\* a failure inside search_and_answer is answered with status 200
AskPipelineFailureIs200 ==
    (a_pc = "done" /\ exception # "None") => http.status = 200
====
